---- MODULE Spec2Model ----
(***************************************************************************)
(* Interactive-JSAT: the graph state engine of GraphBuilderApp             *)
(* (src/Code/app.py): the networkx DiGraph G with its node and edge        *)
(* attributes, the agent registry, the undo and redo stacks of G.copy()    *)
(* snapshots, the mouse/sidebar gesture state, and the JSON import.        *)
(*                                                                         *)
(* Python objects that the code shares by reference are modelled by a      *)
(* heap: a node's 'agent' attribute is either a bare string or the address *)
(* of a list object in heap.  nx.DiGraph.copy() builds new attribute dicts *)
(* but copies the attribute values as they are, so a snapshot and the live *)
(* graph hold the same list addresses.  Graph objects themselves are       *)
(* values here; dialogs open and save in one step; a click's target is an  *)
(* input, not computed from coordinates and zoom.                          *)
(***************************************************************************)
EXTENDS Integers, Sequences, FiniteSets, TLC

VARIABLES
    G,                      \* self.G: [nodes: id -> attrs, edges: <<u,v>> -> type]
    heap,                   \* the list objects held as 'agent' attributes
    agents,                 \* self.agents: the registry's keys, in dict order
    undo_stack,             \* self.undo_stack
    redo_stack,             \* self.redo_stack
    selected_node,          \* self.selected_node
    inspected_node,         \* self.inspected_node
    drag_node,              \* self.drag_node
    is_dragging,            \* self.is_dragging
    pre_drag_graph_state,   \* self.pre_drag_graph_state: <<>> is None
    pan_start,              \* self.pan_start is not None
    sidebar_drag_data,      \* self.sidebar_drag_data
    button,                 \* where Button-1 is held: "up", "canvas" or "sidebar"
    mode,                   \* self.mode
    view_mode,              \* self.view_mode
    last,                   \* the handler branch that ran last
    prev,                   \* the handler branch that ran before it
    steps,                  \* number of commands issued (bounds the runs)
    undo_truth,             \* per undo_stack entry: the graph value it held when pushed
    redo_truth,             \* per redo_stack entry: the graph value it held when pushed
    press_truth,            \* the graph value at the last press on the canvas
    pressed,                \* what that press was on: "none", "node" or "background"
    current_highlights,     \* self.current_highlights: the list of highlight groups
    active_vis_mode         \* self.active_vis_mode: <<>> is None

vars == <<G, heap, agents, undo_stack, redo_stack, selected_node, inspected_node,
          drag_node, is_dragging, pre_drag_graph_state, pan_start,
          sidebar_drag_data, button, mode, view_mode, last, prev, steps,
          undo_truth, redo_truth, press_truth, pressed, current_highlights,
          active_vis_mode>>

histVars == <<undo_stack, redo_stack, undo_truth, redo_truth>>
mouseVars == <<drag_node, is_dragging, pre_drag_graph_state, pan_start, press_truth,
               pressed>>
sidebarVars == <<sidebar_drag_data, button>>
visVars == <<current_highlights, active_vis_mode>>

-----------------------------------------------------------------------------
(* config.py *)

HISTORY_LIMIT == 40

DEFAULT_AGENTS == <<"Unassigned">>

VIEW_MODE_FREE == "FREE"
VIEW_MODE_JSAT == "JSAT"

LAYER_ORDER == <<"Synchrony", "Coordination Grounding", "Distributed Work", "Base Environment">>

JSAT_LAYERS == [l \in {LAYER_ORDER[i] : i \in 1..Len(LAYER_ORDER)} |->
                  CASE l = "Synchrony" -> 100
                    [] l = "Coordination Grounding" -> 250
                    [] l = "Distributed Work" -> 400
                    [] OTHER -> 550]

EDGE_TYPE_HARD == "hard"
EDGE_TYPE_SOFT == "soft"

-----------------------------------------------------------------------------
(* Bounds and input sets of the model *)

\* Number of commands in a run of Spec.
MaxSteps == 3
\* Number of nodes the graph may hold in SpecHistory (above HISTORY_LIMIT + 1).
HistMaxNodes == 42
\* Number of nodes the graph may hold in the other specifications.
MaxNodes == 3

\* Names typed into the agent dialogs.
AgentNames == {"Unassigned", "A", "B"}
\* Labels typed into the node editor.
LabelInputs == {"F", "X"}
\* World coordinates of mouse events.
PosInputs == {<<100, 100>>, <<220, 260>>}

\* Python's None for the node-valued fields (node ids are naturals).
NoNode == -1
\* bool(x) of a node-valued field: None and node 0 are both falsy.
Truthy(x) == x # NoNode /\ x # 0

-----------------------------------------------------------------------------
(* Graph values *)

EmptyGraph == [nodes |-> <<>>, edges |-> <<>>]

NodeIds(g) == DOMAIN g.nodes
EdgeIds(g) == DOMAIN g.edges

StrAgent(name) == [tag |-> "str", val |-> name]
ListAgent(addr) == [tag |-> "list", val |-> addr]

\* ag_list = d.get('agent'); if not isinstance(ag_list, list): ag_list = [ag_list]
AgentList(g, h, n) ==
    LET a == g.nodes[n].agent
    IN  IF a.tag = "list" THEN h[a.val] ELSE <<a.val>>

SeqToSet(s) == {s[i] : i \in 1..Len(s)}

AgentSet(g, h, n) == SeqToSet(AgentList(g, h, n))

\* What a graph object holds, with every list address replaced by the list's
\* current content.
GraphValue(g, h) ==
    [nodes |-> [n \in NodeIds(g) |->
                  [g.nodes[n] EXCEPT !.agent =
                      IF @.tag = "list" THEN [tag |-> "list", val |-> h[@.val]] ELSE @]],
     edges |-> g.edges]

\* The graph as the claims compare it: nodes, attributes, edges with their
\* types, and each node's agents as a set.
GraphView(g, h) ==
    [nodes |-> [n \in NodeIds(g) |->
                  [pos |-> g.nodes[n].pos, type |-> g.nodes[n].type,
                   label |-> g.nodes[n].label, layer |-> g.nodes[n].layer,
                   agents |-> AgentSet(g, h, n)]],
     edges |-> g.edges]

\* The same view of a recorded graph value.
ValueView(v) ==
    [nodes |-> [n \in DOMAIN v.nodes |->
                  [pos |-> v.nodes[n].pos, type |-> v.nodes[n].type,
                   label |-> v.nodes[n].label, layer |-> v.nodes[n].layer,
                   agents |-> IF v.nodes[n].agent.tag = "list"
                              THEN SeqToSet(v.nodes[n].agent.val)
                              ELSE {v.nodes[n].agent.val}]],
     edges |-> v.edges]

\* nx.DiGraph.copy(): a new graph with new attribute dicts whose values are the
\* same objects, so list addresses are carried over unchanged.
GraphCopy(g) == [nodes |-> [n \in NodeIds(g) |-> g.nodes[n]],
                 edges |-> [e \in EdgeIds(g) |-> g.edges[e]]]

Max(S) == CHOOSE x \in S : \A y \in S : y <= x
Min(S) == CHOOSE x \in S : \A y \in S : x <= y

\* Appending a new list object to the heap; its address is the new length.
Alloc(h, list) == Append(h, list)

-----------------------------------------------------------------------------
(* History *)

Last(s) == s[Len(s)]
Front(s) == SubSeq(s, 1, Len(s) - 1)

\* The append without the eviction that follows it.
PushNoEvict(stack, snapshot) == Append(stack, snapshot)

\* undo_stack.append(snapshot); if len(undo_stack) > HISTORY_LIMIT: pop(0)
PushSnapshot(stack, snapshot) ==
    LET s == Append(stack, snapshot)
    IN  IF Len(s) > HISTORY_LIMIT THEN Tail(s) ELSE s

\* snapshot = state if state else self.G.copy()   (bool(graph) is len(graph) > 0)
SnapshotOf(state) ==
    IF state # <<>> /\ NodeIds(state[1]) # {} THEN state[1] ELSE GraphCopy(G)

\* save_state(state): the stack updates; the callers add the graph change.
save_state(state) ==
    /\ undo_stack' = PushSnapshot(undo_stack, SnapshotOf(state))
    /\ redo_stack' = <<>>
    /\ undo_truth' = PushSnapshot(undo_truth, GraphValue(SnapshotOf(state), heap))
    /\ redo_truth' = <<>>

\* undo with its two statements swapped: the graph is replaced first, and the
\* copy that goes on the redo stack is a copy of the restored graph
undo_copy_after_restore ==
    /\ button = "up"
    /\ IF undo_stack # <<>>
       THEN /\ redo_stack' = Append(redo_stack, GraphCopy(Last(undo_stack)))
            /\ redo_truth' = Append(redo_truth, GraphValue(G, heap))
            /\ G' = Last(undo_stack)
            /\ undo_stack' = Front(undo_stack)
            /\ undo_truth' = Front(undo_truth)
            /\ last' = "undo"
       ELSE /\ last' = "undo_nothing"
            /\ UNCHANGED <<G, histVars>>
    /\ UNCHANGED <<heap, agents, selected_node, inspected_node, mouseVars,
                   sidebarVars, mode, view_mode>>
    /\ UNCHANGED visVars

\* undo: nothing when the undo stack is empty
undo ==
    /\ button = "up"
    /\ IF undo_stack # <<>>
       THEN /\ redo_stack' = Append(redo_stack, GraphCopy(G))
            /\ redo_truth' = Append(redo_truth, GraphValue(G, heap))
            /\ G' = Last(undo_stack)
            /\ undo_stack' = Front(undo_stack)
            /\ undo_truth' = Front(undo_truth)
            /\ last' = "undo"
       ELSE /\ last' = "undo_nothing"
            /\ UNCHANGED <<G, histVars>>
    /\ UNCHANGED <<heap, agents, selected_node, inspected_node, mouseVars,
                   sidebarVars, mode, view_mode>>
    /\ UNCHANGED visVars

\* redo reading redo_stack[-1] where the code pops it
redo_without_pop ==
    /\ button = "up"
    /\ IF redo_stack # <<>>
       THEN /\ undo_stack' = Append(undo_stack, GraphCopy(G))
            /\ undo_truth' = Append(undo_truth, GraphValue(G, heap))
            /\ G' = Last(redo_stack)
            /\ UNCHANGED <<redo_stack, redo_truth>>
            /\ last' = "redo"
       ELSE /\ last' = "redo_nothing"
            /\ UNCHANGED <<G, histVars>>
    /\ UNCHANGED <<heap, agents, selected_node, inspected_node, mouseVars,
                   sidebarVars, mode, view_mode>>
    /\ UNCHANGED visVars

\* redo: nothing when the redo stack is empty
redo ==
    /\ button = "up"
    /\ IF redo_stack # <<>>
       THEN /\ undo_stack' = Append(undo_stack, GraphCopy(G))
            /\ undo_truth' = Append(undo_truth, GraphValue(G, heap))
            /\ G' = Last(redo_stack)
            /\ redo_stack' = Front(redo_stack)
            /\ redo_truth' = Front(redo_truth)
            /\ last' = "redo"
       ELSE /\ last' = "redo_nothing"
            /\ UNCHANGED <<G, histVars>>
    /\ UNCHANGED <<heap, agents, selected_node, inspected_node, mouseVars,
                   sidebarVars, mode, view_mode>>
    /\ UNCHANGED visVars

-----------------------------------------------------------------------------
(* Graph operations (networkx) *)

RestrictTo(f, S) == [x \in S |-> f[x]]

\* G.add_node(nid, **attrs)
AddNodeTo(g, nid, attrs) ==
    [g EXCEPT !.nodes = [n \in NodeIds(g) \cup {nid} |->
                            IF n = nid THEN attrs ELSE g.nodes[n]]]

\* remove_node taking every edge of the graph with the node.
RemoveNodeAllEdges(g, n) ==
    [nodes |-> RestrictTo(g.nodes, NodeIds(g) \ {n}),
     edges |-> <<>>]

\* G.remove_node(n): the node and every edge incident to it
RemoveNodeFrom(g, n) ==
    [nodes |-> RestrictTo(g.nodes, NodeIds(g) \ {n}),
     edges |-> RestrictTo(g.edges, {e \in EdgeIds(g) : e[1] # n /\ e[2] # n})]

\* G.add_edge(u, v, type=t): a new edge, or the type of the existing one
AddEdgeTo(g, u, v, t) ==
    [g EXCEPT !.edges = [e \in EdgeIds(g) \cup {<<u, v>>} |->
                            IF e = <<u, v>> THEN t ELSE g.edges[e]]]

\* G.remove_edge(u, v)
RemoveEdgeFrom(g, e) == [g EXCEPT !.edges = RestrictTo(g.edges, EdgeIds(g) \ {e})]

Abs(x) == IF x < 0 THEN -x ELSE x

NoLayer == "None"

\* get_layer_from_y: the first layer of JSAT_LAYERS at the least distance below 9999
get_layer_from_y(y) ==
    LET dist(i) == Abs(y - JSAT_LAYERS[LAYER_ORDER[i]])
        best == {i \in 1..Len(LAYER_ORDER) :
                    /\ dist(i) < 9999
                    /\ \A j \in 1..Len(LAYER_ORDER) :
                          dist(i) < dist(j) \/ (dist(i) = dist(j) /\ i <= j)}
    IN  IF best = {} THEN NoLayer ELSE LAYER_ORDER[CHOOSE i \in best : TRUE]

-----------------------------------------------------------------------------
(* Toolbar *)

Modes == {"SELECT", "ADD_FUNC", "ADD_RES", "ADD_EDGE", "DELETE"}

set_mode(m) ==
    /\ button = "up"
    /\ mode' = m
    /\ selected_node' = NoNode
    /\ last' = "set_mode"
    /\ UNCHANGED <<G, heap, agents, histVars, inspected_node, mouseVars,
                   sidebarVars, view_mode>>
    /\ UNCHANGED visVars

toggle_view ==
    /\ button = "up"
    /\ view_mode' = IF view_mode = VIEW_MODE_FREE THEN VIEW_MODE_JSAT ELSE VIEW_MODE_FREE
    /\ last' = "toggle_view"
    /\ UNCHANGED <<G, heap, agents, histVars, selected_node, inspected_node,
                   mouseVars, sidebarVars, mode>>
    /\ UNCHANGED visVars

-----------------------------------------------------------------------------
(* Canvas mouse handlers *)

\* add_node(x, y): the next id, the type of the current mode, agent="Unassigned"
NextNodeId(g) == IF NodeIds(g) # {} THEN Max(NodeIds(g)) + 1 ELSE 0
NewNodeAttrs(pos) ==
    LET typ == IF mode = "ADD_FUNC" THEN "Function" ELSE "Resource"
    IN  [pos |-> pos, type |-> typ, agent |-> StrAgent("Unassigned"),
         label |-> IF typ = "Function" THEN "F" ELSE "R",
         layer |-> IF typ = "Resource" THEN "Base Environment" ELSE "Distributed Work"]
add_node(pos) == G' = AddNodeTo(G, NextNodeId(G), NewNodeAttrs(pos))

\* on_mouse_down on a node: _handle_node_press
node_press(n) ==
    /\ button = "up"
    /\ n \in NodeIds(G)
    /\ button' = "canvas"
    /\ pressed' = "node"
    /\ pre_drag_graph_state' = <<GraphCopy(G)>>
    /\ press_truth' = GraphValue(G, heap)
    /\ drag_node' = n
    /\ is_dragging' = FALSE
    /\ last' = "node_press"
    /\ UNCHANGED <<G, heap, agents, histVars, selected_node, inspected_node,
                   pan_start, sidebar_drag_data, mode, view_mode>>
    /\ UNCHANGED visVars

\* on_mouse_down off every node, over edge e: DELETE mode removes the edge
edge_delete_press(e) ==
    /\ button = "up"
    /\ mode = "DELETE"
    /\ e \in EdgeIds(G)
    /\ button' = "canvas"
    /\ pressed' = "background"
    /\ save_state(<<>>)
    /\ G' = RemoveEdgeFrom(G, e)
    /\ press_truth' = GraphValue(G, heap)
    /\ last' = "delete_edge"
    /\ UNCHANGED <<heap, agents, selected_node, inspected_node, drag_node,
                   is_dragging, pre_drag_graph_state, pan_start,
                   sidebar_drag_data, mode, view_mode>>
    /\ UNCHANGED visVars

\* on_mouse_down off every node (and, in DELETE mode, off every edge)
background_press ==
    /\ button = "up"
    /\ button' = "canvas"
    /\ pressed' = "background"
    /\ inspected_node' = NoNode
    /\ pan_start' = TRUE
    /\ is_dragging' = FALSE
    /\ press_truth' = GraphValue(G, heap)
    /\ last' = "background_press"
    /\ UNCHANGED <<G, heap, agents, histVars, selected_node, drag_node,
                   pre_drag_graph_state, sidebar_drag_data, mode, view_mode>>
    /\ UNCHANGED visVars

\* on_mouse_drag; far: the pointer is more than 5 pixels from the press
on_mouse_drag(far, pos) ==
    /\ button = "canvas"
    /\ drag_node # NoNode \/ pan_start
    /\ is_dragging' = (is_dragging \/ far)
    /\ IF drag_node # NoNode
       THEN /\ IF is_dragging' /\ drag_node \in NodeIds(G)
               THEN G' = [G EXCEPT !.nodes[drag_node].pos = pos]
               ELSE UNCHANGED G
            /\ last' = IF is_dragging' THEN "drag_move" ELSE "drag_still"
       ELSE /\ UNCHANGED G
            /\ last' = "pan_move"
    /\ UNCHANGED <<heap, agents, histVars, selected_node, inspected_node,
                   drag_node, pre_drag_graph_state, press_truth, pressed, pan_start,
                   sidebarVars, mode, view_mode>>
    /\ UNCHANGED visVars

\* _finalize_drag calling save_state() without the press-time copy
finalize_drag_current(pos) ==
    /\ save_state(<<>>)
    /\ LET new_layer == get_layer_from_y(pos[2])
       IN  IF view_mode = VIEW_MODE_JSAT /\ new_layer # NoLayer
           THEN IF drag_node \in NodeIds(G)
                THEN /\ G' = [G EXCEPT !.nodes[drag_node].layer = new_layer]
                     /\ last' = "finalize_drag"
                ELSE /\ UNCHANGED G
                     /\ last' = "KeyError_finalize"
           ELSE /\ UNCHANGED G
                /\ last' = "finalize_drag"
    /\ UNCHANGED <<heap, selected_node, inspected_node>>

\* _finalize_drag: the press-time copy goes on the undo stack, then the snap
finalize_drag(pos) ==
    /\ save_state(pre_drag_graph_state)
    /\ LET new_layer == get_layer_from_y(pos[2])
       IN  IF view_mode = VIEW_MODE_JSAT /\ new_layer # NoLayer
           THEN IF drag_node \in NodeIds(G)
                THEN /\ G' = [G EXCEPT !.nodes[drag_node].layer = new_layer]
                     /\ last' = "finalize_drag"
                ELSE /\ UNCHANGED G
                     /\ last' = "KeyError_finalize"
           ELSE /\ UNCHANGED G
                /\ last' = "finalize_drag"
    /\ UNCHANGED <<heap, selected_node, inspected_node>>

\* _handle_add_edge with the comparison of the two types left out.
handle_add_edge_untyped(n, is_hard) ==
    IF ~Truthy(selected_node)
    THEN /\ selected_node' = n
         /\ last' = "select_source"
         /\ UNCHANGED <<G, histVars>>
    ELSE IF selected_node = n
    THEN /\ last' = "same_node"
         /\ UNCHANGED <<G, histVars, selected_node>>
    ELSE IF selected_node \notin NodeIds(G) \/ n \notin NodeIds(G)
    THEN /\ last' = "KeyError_add_edge"
         /\ UNCHANGED <<G, histVars, selected_node>>
    ELSE /\ save_state(<<>>)
         /\ G' = AddEdgeTo(G, selected_node, n,
                           IF is_hard THEN EDGE_TYPE_HARD ELSE EDGE_TYPE_SOFT)
         /\ selected_node' = NoNode
         /\ last' = "add_edge"

\* _handle_add_edge(node_id); is_hard: the answer to the askyesno dialog
handle_add_edge(n, is_hard) ==
    IF ~Truthy(selected_node)
    THEN /\ selected_node' = n
         /\ last' = "select_source"
         /\ UNCHANGED <<G, histVars>>
    ELSE IF selected_node = n
    THEN /\ last' = "same_node"
         /\ UNCHANGED <<G, histVars, selected_node>>
    ELSE IF selected_node \notin NodeIds(G) \/ n \notin NodeIds(G)
    THEN /\ last' = "KeyError_add_edge"
         /\ UNCHANGED <<G, histVars, selected_node>>
    ELSE IF G.nodes[selected_node].type = G.nodes[n].type
    THEN /\ last' = "connection_error"
         /\ selected_node' = NoNode
         /\ UNCHANGED <<G, histVars>>
    ELSE /\ save_state(<<>>)
         /\ G' = AddEdgeTo(G, selected_node, n,
                           IF is_hard THEN EDGE_TYPE_HARD ELSE EDGE_TYPE_SOFT)
         /\ selected_node' = NoNode
         /\ last' = "add_edge"

\* handle_click(node_id)
handle_click(n, is_hard) ==
    /\ UNCHANGED heap
    /\ CASE mode = "DELETE" ->
              /\ save_state(<<>>)
              /\ IF n \in NodeIds(G)
                 THEN /\ G' = RemoveNodeFrom(G, n)
                      /\ inspected_node' = NoNode
                      /\ last' = "delete_node"
                 ELSE /\ UNCHANGED G
                      /\ inspected_node' = n
                      /\ last' = "KeyError_delete"
              /\ UNCHANGED selected_node
         [] mode = "ADD_EDGE" ->
              /\ inspected_node' = n
              /\ handle_add_edge(n, is_hard)
         [] OTHER ->
              /\ inspected_node' = n
              /\ last' = "click_inspect"
              /\ UNCHANGED <<G, histVars, selected_node>>

\* The branches that end in an exception (a KeyError of G.nodes[...], or
\* networkx's error for a missing node).
Raised == {"KeyError_add_edge", "KeyError_delete", "KeyError_finalize"}

\* The nodes named by the highlight groups, as nodes and as ends of edges.
HighlightNodes(hl) ==
    UNION {SeqToSet(hl[i].nodes) \cup {hl[i].edges[j][1] : j \in 1..Len(hl[i].edges)}
              \cup {hl[i].edges[j][2] : j \in 1..Len(hl[i].edges)} : i \in 1..Len(hl)}

\* redraw() over the graph g: _draw_highlights looks up every node of the
\* highlight groups with get_draw_pos, a KeyError for a node g does not have.
redraw_raises(g) == ~(HighlightNodes(current_highlights) \subseteq NodeIds(g))

\* on_mouse_up; an exception raised by a handler, or by the redraw that ends
\* it, leaves drag_node, is_dragging and pan_start as they were
on_mouse_up(pos, is_hard) ==
    /\ button = "canvas"
    /\ button' = "up"
    /\ IF drag_node # NoNode
       THEN /\ IF is_dragging THEN finalize_drag(pos) ELSE handle_click(drag_node, is_hard)
            /\ LET failed == \/ last' \in Raised
                             \/ last' # "same_node" /\ redraw_raises(G')
               IN  /\ drag_node' = IF failed THEN drag_node ELSE NoNode
                   /\ is_dragging' = IF failed THEN is_dragging ELSE FALSE
            /\ UNCHANGED pan_start
       ELSE IF pan_start
       THEN /\ IF ~is_dragging /\ mode \in {"ADD_FUNC", "ADD_RES"}
               THEN /\ save_state(<<>>)
                    /\ add_node(pos)
                    /\ last' = "add_node"
                    /\ pan_start' = redraw_raises(G')
               ELSE /\ UNCHANGED <<G, histVars>>
                    /\ last' = "pan_end"
                    /\ pan_start' = FALSE
            /\ is_dragging' = FALSE
            /\ UNCHANGED <<heap, selected_node, inspected_node, drag_node>>
       ELSE /\ last' = "mouse_up"
            /\ UNCHANGED <<G, heap, histVars, selected_node, inspected_node,
                           drag_node, is_dragging, pan_start>>
    /\ UNCHANGED <<agents, pre_drag_graph_state, press_truth, pressed,
                   sidebar_drag_data, mode, view_mode>>
    /\ UNCHANGED visVars

-----------------------------------------------------------------------------
(* Python list and string operations; a string that the code takes apart is a
   sequence of one-character strings *)

IndexOf(s, x) == CHOOSE i \in 1..Len(s) : s[i] = x /\ \A j \in 1..(i - 1) : s[j] # x

\* list.remove(x): the first occurrence
RemoveFirst(s, x) ==
    LET i == IndexOf(s, x)
    IN  SubSeq(s, 1, i - 1) \o SubSeq(s, i + 1, Len(s))

\* ag[ag.index(x)] = y
ReplaceFirst(s, x, y) == [s EXCEPT ![IndexOf(s, x)] = y]

\* The addresses of the list objects that graph g's nodes hold.
ListRefs(g) == {g.nodes[n].agent.val : n \in {m \in NodeIds(g) : g.nodes[m].agent.tag = "list"}}

\* Position of n among the members of S, counted from 1.
Rank(S, n) == Cardinality({m \in S : m <= n})

-----------------------------------------------------------------------------
(* Agent registry and agent assignment *)

\* del self.agents[old]; self.agents[new] = color   (dict order)
RenameKey(reg, old, new) ==
    LET without == SelectSeq(reg, LAMBDA a : a # old)
    IN  IF new \in SeqToSet(without) THEN without ELSE Append(without, new)

DeleteKey(reg, old) == SelectSeq(reg, LAMBDA a : a # old)

\* create_agent: the name typed, unless empty or taken
create_agent(name) ==
    /\ button = "up"
    /\ name # ""
    /\ name \notin SeqToSet(agents)
    /\ agents' = Append(agents, name)
    /\ last' = "create_agent"
    /\ UNCHANGED <<G, heap, histVars, selected_node, inspected_node, mouseVars,
                   sidebarVars, mode, view_mode>>
    /\ UNCHANGED visVars

\* edit_agent.save: del agents[agent_name]; agents[new_name] = color; every
\* node that has agent_name as a bare string gets new_name, every list that
\* holds agent_name has its first occurrence overwritten in place
RenameInNodes(g, agent_name, new_name) ==
    [g EXCEPT !.nodes = [n \in NodeIds(g) |->
        IF g.nodes[n].agent = StrAgent(agent_name)
        THEN [g.nodes[n] EXCEPT !.agent = StrAgent(new_name)]
        ELSE g.nodes[n]]]
RenameInHeap(h, g, agent_name, new_name) ==
    [a \in DOMAIN h |->
        IF a \in ListRefs(g) /\ agent_name \in SeqToSet(h[a])
        THEN ReplaceFirst(h[a], agent_name, new_name)
        ELSE h[a]]

edit_agent_save(agent_name, new_name) ==
    /\ button = "up"
    /\ agent_name \in SeqToSet(agents)
    /\ new_name # ""
    /\ save_state(<<>>)
    /\ agents' = RenameKey(agents, agent_name, new_name)
    /\ G' = RenameInNodes(G, agent_name, new_name)
    /\ heap' = RenameInHeap(heap, G, agent_name, new_name)
    /\ last' = "rename_agent"
    /\ UNCHANGED <<selected_node, inspected_node, mouseVars, sidebarVars, mode, view_mode>>
    /\ UNCHANGED visVars

\* edit_agent.delete: nothing for "Unassigned"; else the name is removed in
\* place from every list that holds it, and a node whose list is then empty
\* gets a new list ["Unassigned"]
DeleteInHeap(h, g, agent_name) ==
    [a \in DOMAIN h |->
        IF a \in ListRefs(g) /\ agent_name \in SeqToSet(h[a])
        THEN RemoveFirst(h[a], agent_name)
        ELSE h[a]]

EmptiedNodes(h, g) ==
    {n \in NodeIds(g) : g.nodes[n].agent.tag = "list" /\ h[g.nodes[n].agent.val] = <<>>}

edit_agent_delete(agent_name) ==
    /\ button = "up"
    /\ agent_name \in SeqToSet(agents)
    /\ agent_name # "Unassigned"
    /\ save_state(<<>>)
    /\ LET h1 == DeleteInHeap(heap, G, agent_name)
           E == EmptiedNodes(h1, G)
       IN  /\ heap' = h1 \o [i \in 1..Cardinality(E) |-> <<"Unassigned">>]
           /\ G' = [G EXCEPT !.nodes = [n \in NodeIds(G) |->
                      IF n \in E
                      THEN [G.nodes[n] EXCEPT !.agent = ListAgent(Len(h1) + Rank(E, n))]
                      ELSE G.nodes[n]]]
    /\ agents' = DeleteKey(agents, agent_name)
    /\ last' = "delete_agent"
    /\ UNCHANGED <<selected_node, inspected_node, mouseVars, sidebarVars, mode, view_mode>>
    /\ UNCHANGED visVars

\* assign_agent_logic(node_id, agent_name): the toggle; a list is changed in
\* place, a bare string is first wrapped in a new list.  Yields the new
\* <<graph, heap>>.
assign_agent_logic(g, h, node_id, agent_name) ==
    LET a == g.nodes[node_id].agent
        wrapped == a.tag # "list"
        h0 == IF wrapped THEN Alloc(h, <<a.val>>) ELSE h
        addr == IF wrapped THEN Len(h0) ELSE a.val
        l0 == h0[addr]
        l1 == IF "Unassigned" \in SeqToSet(l0) /\ agent_name # "Unassigned"
              THEN RemoveFirst(l0, "Unassigned") ELSE l0
        had == agent_name \in SeqToSet(l1)
        l2 == IF had THEN RemoveFirst(l1, agent_name) ELSE Append(l1, agent_name)
        h2 == [h0 EXCEPT ![addr] = l2]
    IN  IF had /\ l2 = <<>>
        THEN <<[g EXCEPT !.nodes[node_id].agent = ListAgent(Len(h2) + 1)],
               Alloc(h2, <<"Unassigned">>)>>
        ELSE <<[g EXCEPT !.nodes[node_id].agent = ListAgent(addr)], h2>>

\* on_sidebar_node_press(node_id)
on_sidebar_node_press(n) ==
    /\ button = "up"
    /\ n \in NodeIds(G)
    /\ button' = "sidebar"
    /\ sidebar_drag_data' = n
    /\ selected_node' = n
    /\ inspected_node' = n
    /\ last' = "sidebar_press"
    /\ UNCHANGED <<G, heap, agents, histVars, mouseVars, mode, view_mode>>
    /\ UNCHANGED visVars

\* on_sidebar_node_release; target: the agent frame under the pointer, "" for none
on_sidebar_node_release(target) ==
    /\ button = "sidebar"
    /\ button' = "up"
    /\ target \in SeqToSet(agents) \cup {""}
    /\ IF Truthy(sidebar_drag_data)
       THEN /\ IF target # ""
               THEN /\ save_state(<<>>)
                    /\ heap' = Alloc(heap, <<target>>)
                    /\ G' = [G EXCEPT !.nodes[sidebar_drag_data].agent = ListAgent(Len(heap) + 1)]
                    /\ last' = "sidebar_assign"
               ELSE /\ UNCHANGED <<G, heap, histVars>>
                    /\ last' = "sidebar_release"
            /\ sidebar_drag_data' = NoNode
       ELSE /\ UNCHANGED <<G, heap, histVars, sidebar_drag_data>>
            /\ last' = "sidebar_release"
    /\ UNCHANGED <<agents, selected_node, inspected_node, mouseVars, mode, view_mode>>
    /\ UNCHANGED visVars

\* open_sharing_dialog.save_shares; checked: the ticked boxes
save_shares(n, checked) ==
    /\ button = "up"
    /\ n \in NodeIds(G)
    /\ checked \subseteq SeqToSet(agents)
    /\ LET ticked == SelectSeq(agents, LAMBDA a : a \in checked)
           selected == IF ticked = <<>> THEN <<"Unassigned">> ELSE ticked
       IN  /\ save_state(<<>>)
           /\ heap' = Alloc(heap, selected)
           /\ G' = [G EXCEPT !.nodes[n].agent = ListAgent(Len(heap) + 1)]
    /\ last' = "save_shares"
    /\ UNCHANGED <<agents, selected_node, inspected_node, mouseVars, sidebarVars,
                   mode, view_mode>>
    /\ UNCHANGED visVars

-----------------------------------------------------------------------------
(* Node editor, inspector, edge double click *)

\* open_node_editor.save
node_editor_save(n, text) ==
    /\ button = "up"
    /\ n \in NodeIds(G)
    /\ save_state(<<>>)
    /\ G' = [G EXCEPT !.nodes[n].label = text]
    /\ last' = "set_label"
    /\ UNCHANGED <<heap, agents, selected_node, inspected_node, mouseVars,
                   sidebarVars, mode, view_mode>>
    /\ UNCHANGED visVars

\* _build_inspector_section.on_layer_change
on_layer_change(layer) ==
    /\ button = "up"
    /\ inspected_node \in NodeIds(G)
    /\ save_state(<<>>)
    /\ G' = [G EXCEPT !.nodes[inspected_node].layer = layer]
    /\ last' = "set_layer"
    /\ UNCHANGED <<heap, agents, selected_node, inspected_node, mouseVars,
                   sidebarVars, mode, view_mode>>
    /\ UNCHANGED visVars

\* on_double_click over edge e (and over no node): the type flips
FlipType(t) == IF t = EDGE_TYPE_HARD THEN EDGE_TYPE_SOFT ELSE EDGE_TYPE_HARD
flip_edge(e) ==
    /\ button = "up"
    /\ e \in EdgeIds(G)
    /\ save_state(<<>>)
    /\ G' = [G EXCEPT !.edges[e] = FlipType(@)]
    /\ last' = "flip_edge"
    /\ UNCHANGED <<heap, agents, selected_node, inspected_node, mouseVars,
                   sidebarVars, mode, view_mode>>
    /\ UNCHANGED visVars

-----------------------------------------------------------------------------
(* JSON import (load_from_json) *)

S_Function == <<"F", "u", "n", "c", "t", "i", "o", "n">>
S_Resource == <<"R", "e", "s", "o", "u", "r", "c", "e">>

\* The layer names as the characters the codec takes apart.
LayerChars(layer) ==
    CASE layer = "Synchrony" -> <<"S", "y", "n", "c", "h", "r", "o", "n", "y">>
      [] layer = "Coordination Grounding" -> <<"C", "o", "o", "r", "d", "i", "n", "a", "t", "i", "o", "n", " ", "G", "r", "o", "u", "n", "d", "i", "n", "g">>
      [] layer = "Distributed Work" -> <<"D", "i", "s", "t", "r", "i", "b", "u", "t", "e", "d", " ", "W", "o", "r", "k">>
      [] layer = "Base Environment" -> <<"B", "a", "s", "e", " ", "E", "n", "v", "i", "r", "o", "n", "m", "e", "n", "t">>

\* str.endswith
EndsWith(s, suf) ==
    Len(s) >= Len(suf) /\ SubSeq(s, Len(s) - Len(suf) + 1, Len(s)) = suf

StartsWithAt(s, i, sub) ==
    i + Len(sub) - 1 <= Len(s) /\ SubSeq(s, i, i + Len(sub) - 1) = sub

\* s.replace(sub, ""): every occurrence, left to right
RECURSIVE RemoveAllFrom(_, _, _)
RemoveAllFrom(s, i, sub) ==
    IF i > Len(s) THEN <<>>
    ELSE IF StartsWithAt(s, i, sub) THEN RemoveAllFrom(s, i + Len(sub), sub)
    ELSE <<s[i]>> \o RemoveAllFrom(s, i + 1, sub)
RemoveAll(s, sub) == RemoveAllFrom(s, 1, sub)

\* str.lower, on the letters that occur
LowerChar(c) ==
    CASE c = "A" -> "a"
      [] c = "B" -> "b"
      [] c = "C" -> "c"
      [] c = "D" -> "d"
      [] c = "E" -> "e"
      [] c = "F" -> "f"
      [] c = "G" -> "g"
      [] c = "R" -> "r"
      [] c = "S" -> "s"
      [] c = "W" -> "w"
      [] OTHER -> c
Lower(s) == [i \in 1..Len(s) |-> LowerChar(s[i])]

\* prefix.lower().replace(" ", "")
Normalize(s) == RemoveAll(Lower(s), <<" ">>)

\* _parse_node_attributes without the default for a prefix that is no layer.
parse_node_attributes_nodefault(combined_string) ==
    LET n_type == IF EndsWith(combined_string, S_Function) THEN "Function" ELSE "Resource"
        prefix == IF EndsWith(combined_string, S_Function)
                  THEN RemoveAll(combined_string, S_Function)
                  ELSE IF EndsWith(combined_string, S_Resource)
                  THEN RemoveAll(combined_string, S_Resource)
                  ELSE combined_string
        norm_prefix == Normalize(prefix)
        known == {i \in 1..Len(LAYER_ORDER) : Normalize(LayerChars(LAYER_ORDER[i])) = norm_prefix}
    IN  <<n_type, IF known = {} THEN "Unknown" ELSE LAYER_ORDER[Min(known)]>>

\* _parse_node_attributes(combined_string): <<type, layer>>
parse_node_attributes(combined_string) ==
    LET n_type == IF EndsWith(combined_string, S_Function) THEN "Function" ELSE "Resource"
        prefix == IF EndsWith(combined_string, S_Function)
                  THEN RemoveAll(combined_string, S_Function)
                  ELSE IF EndsWith(combined_string, S_Resource)
                  THEN RemoveAll(combined_string, S_Resource)
                  ELSE combined_string
        norm_prefix == Normalize(prefix)
        known == {i \in 1..Len(LAYER_ORDER) : Normalize(LayerChars(LAYER_ORDER[i])) = norm_prefix}
    IN  <<n_type, IF known = {} THEN "Base Environment" ELSE LAYER_ORDER[Min(known)]>>

\* label_to_agents[lbl]: the agents whose Authority names lbl, one entry per
\* mention, in document order; <<>> when no agent names it
RECURSIVE CountIn(_, _)
CountIn(s, x) == IF s = <<>> THEN 0 ELSE (IF s[1] = x THEN 1 ELSE 0) + CountIn(Tail(s), x)
RECURSIVE LabelAgents(_, _)
LabelAgents(ag, lbl) ==
    IF ag = <<>> THEN <<>>
    ELSE [i \in 1..CountIn(ag[1].Authority, lbl) |-> ag[1].name] \o LabelAgents(Tail(ag), lbl)

\* self.agents after "1. Load Agents"
RECURSIVE LoadAgents(_, _)
LoadAgents(reg, ag) ==
    IF ag = <<>> THEN reg
    ELSE LoadAgents(IF ag[1].name \in SeqToSet(reg) THEN reg ELSE Append(reg, ag[1].name),
                    Tail(ag))

\* "2. Load Nodes": node i - 1 for the i-th entry; x is 100 plus 120 for every
\* earlier node of the same layer, y is the layer's line
ImportedNode(doc, h, i) ==
    LET props == doc.Nodes[i]
        parsed == parse_node_attributes(props.Type)
        n_layer == parsed[2]
        earlier == Cardinality({j \in 1..(i - 1) :
                       parse_node_attributes(doc.Nodes[j].Type)[2] = n_layer})
    IN  [pos |-> <<100 + 120 * earlier,
                   IF n_layer \in DOMAIN JSAT_LAYERS THEN JSAT_LAYERS[n_layer] ELSE 550>>,
         layer |-> n_layer, type |-> parsed[1], label |-> props.UserData,
         agent |-> ListAgent(Len(h) + i)]

ImportedList(doc, i) ==
    LET l == LabelAgents(doc.Agents, doc.Nodes[i].key)
    IN  IF l = <<>> THEN <<"Unassigned">> ELSE l

\* label_to_id.get(lbl): -1 for None
LabelToId(doc, lbl) ==
    LET hits == {i \in 1..Len(doc.Nodes) : doc.Nodes[i].key = lbl}
    IN  IF hits = {} THEN NoNode ELSE Max(hits) - 1

\* "3. Load Edges" giving up at the first entry with a label that is no node.
RECURSIVE LoadEdgesUntilUnknown(_, _, _)
LoadEdgesUntilUnknown(g, doc, es) ==
    IF es = <<>> THEN g
    ELSE LET u == LabelToId(doc, es[1].Source)
             v == LabelToId(doc, es[1].Target)
         IN  IF u # NoNode /\ v # NoNode
             THEN LoadEdgesUntilUnknown(AddEdgeTo(g, u, v, es[1].type), doc, Tail(es))
             ELSE g

\* "3. Load Edges": entries whose two labels resolve, in order
RECURSIVE LoadEdges(_, _, _)
LoadEdges(g, doc, es) ==
    IF es = <<>> THEN g
    ELSE LET u == LabelToId(doc, es[1].Source)
             v == LabelToId(doc, es[1].Target)
         IN  LoadEdges(IF u # NoNode /\ v # NoNode THEN AddEdgeTo(g, u, v, es[1].type) ELSE g,
                       doc, Tail(es))

ImportedGraph(doc, h) ==
    LoadEdges([nodes |-> [n \in 0..(Len(doc.Nodes) - 1) |-> ImportedNode(doc, h, n + 1)],
               edges |-> <<>>],
              doc, doc.Edges)

\* A Nodes value that is not an object (props.get raises) is written as an
\* entry with a field scalar; an Edges entry without "Source" or "Target"
\* (e["Source"] raises) as a record without that field.
NodeOk(props) == "scalar" \notin DOMAIN props
EdgeOk(e) == {"Source", "Target"} \subseteq DOMAIN e

\* How far the loops of load_from_json get: the number of entries decoded
\* before the first one that raises.
GoodNodes(doc) ==
    LET bad == {i \in 1..Len(doc.Nodes) : ~NodeOk(doc.Nodes[i])}
    IN  IF bad = {} THEN Len(doc.Nodes) ELSE Min(bad) - 1
GoodEdges(doc) ==
    LET bad == {i \in 1..Len(doc.Edges) : ~EdgeOk(doc.Edges[i])}
    IN  IF bad = {} THEN Len(doc.Edges) ELSE Min(bad) - 1

Malformed(doc) ==
    GoodNodes(doc) < Len(doc.Nodes) \/ GoodEdges(doc) < Len(doc.Edges)

\* The part of the document that is decoded before the exception: the nodes
\* before a bad node and no edge, or all nodes and the edges before a bad edge.
Decoded(doc) ==
    IF GoodNodes(doc) < Len(doc.Nodes)
    THEN [doc EXCEPT !.Nodes = SubSeq(doc.Nodes, 1, GoodNodes(doc)), !.Edges = <<>>]
    ELSE [doc EXCEPT !.Edges = SubSeq(doc.Edges, 1, GoodEdges(doc))]

\* load_from_json; a file that is not JSON or has no "GraphData" fails before
\* anything is changed; an entry that raises ends the load where it stands,
\* after save_state, G.clear and the agents
load_from_json(doc) ==
    /\ button = "up"
    /\ IF ~doc.parses
       THEN /\ last' = "load_failed"
            /\ UNCHANGED <<G, heap, agents, histVars>>
       ELSE /\ save_state(<<>>)
            /\ agents' = LoadAgents(DEFAULT_AGENTS, doc.Agents)
            /\ heap' = heap \o [i \in 1..Len(Decoded(doc).Nodes) |-> ImportedList(doc, i)]
            /\ G' = ImportedGraph(Decoded(doc), heap)
            /\ last' = IF Malformed(doc) THEN "load_raised" ELSE "load"
    /\ UNCHANGED <<selected_node, inspected_node, mouseVars, sidebarVars, mode, view_mode>>
    /\ UNCHANGED visVars

\* The ids of a set in increasing order: the order in which G.nodes yields
\* the nodes (the order of insertion; ids are handed out in increasing order).
RECURSIVE SortedIds(_)
SortedIds(S) ==
    IF S = {} THEN <<>> ELSE <<Min(S)>> \o SortedIds(S \ {Min(S)})

TypeChars(typ) == IF typ = "Function" THEN S_Function ELSE S_Resource

\* initiate_save_json, nodes_dict: one entry per label, at the place of the
\* first node with that label and with the value written by the last one
ExportNodes(g) ==
    LET first == {n \in NodeIds(g) :
                    \A m \in NodeIds(g) : m < n => g.nodes[m].label # g.nodes[n].label}
        order == SortedIds(first)
        final(n) == Max({m \in NodeIds(g) : g.nodes[m].label = g.nodes[n].label})
    IN  [i \in 1..Len(order) |->
            [key |-> g.nodes[order[i]].label,
             Type |-> RemoveAll(LayerChars(g.nodes[final(order[i])].layer), <<" ">>)
                        \o TypeChars(g.nodes[final(order[i])].type),
             UserData |-> g.nodes[order[i]].label]]

\* initiate_save_json, edges_list: the labels of the two ends and the type,
\* by source and then target
ExportEdges(g) ==
    LET width == Max(NodeIds(g) \cup {0}) + 1
        order == SortedIds({e[1] * width + e[2] : e \in EdgeIds(g)})
    IN  [i \in 1..Len(order) |->
            LET u == order[i] \div width
                v == order[i] % width
            IN  [Source |-> g.nodes[u].label, Target |-> g.nodes[v].label,
                 type |-> g.edges[<<u, v>>]]]

\* initiate_save_json, agent_authorities[name]: the label of every node once
\* for every mention of name in the node's agents
RECURSIVE AuthorityOf(_, _, _, _)
AuthorityOf(g, h, name, ids) ==
    IF ids = <<>> THEN <<>>
    ELSE [i \in 1..CountIn(AgentList(g, h, ids[1]), name) |-> g.nodes[ids[1]].label]
            \o AuthorityOf(g, h, name, Tail(ids))

\* initiate_save_json: the document written for graph g and registry reg; an
\* agent of a node that is not in the registry is written nowhere
initiate_save_json(g, h, reg) ==
    [parses |-> TRUE,
     Nodes |-> ExportNodes(g),
     Edges |-> ExportEdges(g),
     Agents |-> [i \in 1..Len(reg) |->
                   [name |-> reg[i],
                    Authority |-> AuthorityOf(g, h, reg[i], SortedIds(NodeIds(g)))]]]

\* Save JSON and then Open JSON on the file just written.
save_then_load == load_from_json(initiate_save_json(G, heap, agents))

\* The documents offered to the import.
T_DWFunction == <<"D", "i", "s", "t", "r", "i", "b", "u", "t", "e", "d", "W", "o", "r", "k", "F", "u", "n", "c", "t", "i", "o", "n">>
T_BEResource == <<"B", "a", "s", "e", "E", "n", "v", "i", "r", "o", "n", "m", "e", "n", "t", "R", "e", "s", "o", "u", "r", "c", "e">>
T_SyncFunction == <<"s", "y", "n", "c", "h", "r", "o", "n", "y", " ", "F", "u", "n", "c", "t", "i", "o", "n">>

DocBad == [parses |-> FALSE, Nodes |-> <<>>, Edges |-> <<>>, Agents |-> <<>>]

\* F1 owned by A, R1 owned by nobody, F1 -> R1 hard, and an edge to a label
\* that is no node.
DocPair ==
    [parses |-> TRUE,
     Nodes |-> <<[key |-> "F1", Type |-> T_DWFunction, UserData |-> "F1"],
                 [key |-> "R1", Type |-> T_BEResource, UserData |-> "R1"]>>,
     Edges |-> <<[Source |-> "F1", Target |-> "R1", type |-> EDGE_TYPE_HARD],
                 [Source |-> "R1", Target |-> "Z9", type |-> EDGE_TYPE_SOFT]>>,
     Agents |-> <<[name |-> "A", Authority |-> <<"F1">>]>>]

\* One node that both Unassigned and A have authority over.
DocShared ==
    [parses |-> TRUE,
     Nodes |-> <<[key |-> "F1", Type |-> T_SyncFunction, UserData |-> "F1"]>>,
     Edges |-> <<>>,
     Agents |-> <<[name |-> "Unassigned", Authority |-> <<"F1">>],
                  [name |-> "A", Authority |-> <<"F1">>]>>]

ImportDocs == {DocBad, DocPair, DocShared}

\* Two functions and a resource, no edge: node 0 is F1, node 1 is F2, node 2
\* is R1.
DocTrio ==
    [parses |-> TRUE,
     Nodes |-> <<[key |-> "F1", Type |-> T_DWFunction, UserData |-> "F1"],
                 [key |-> "F2", Type |-> T_DWFunction, UserData |-> "F2"],
                 [key |-> "R1", Type |-> T_BEResource, UserData |-> "R1"]>>,
     Edges |-> <<>>,
     Agents |-> <<>>]

-----------------------------------------------------------------------------
(* Specifications *)

Init ==
    /\ G = EmptyGraph
    /\ heap = <<>>
    /\ agents = DEFAULT_AGENTS
    /\ undo_stack = <<>>
    /\ redo_stack = <<>>
    /\ selected_node = NoNode
    /\ inspected_node = NoNode
    /\ drag_node = NoNode
    /\ is_dragging = FALSE
    /\ pre_drag_graph_state = <<>>
    /\ pan_start = FALSE
    /\ sidebar_drag_data = NoNode
    /\ button = "up"
    /\ mode = "SELECT"
    /\ view_mode = VIEW_MODE_FREE
    /\ last = "init"
    /\ prev = "init"
    /\ steps = 0
    /\ undo_truth = <<>>
    /\ redo_truth = <<>>
    /\ press_truth = EmptyGraph
    /\ pressed = "none"
    /\ current_highlights = <<>>
    /\ active_vis_mode = <<>>

\* The release that is about to run add_node.
WillAddNode ==
    drag_node = NoNode /\ pan_start /\ ~is_dragging /\ mode \in {"ADD_FUNC", "ADD_RES"}

\* The graph has room for the node a release would add.
NodeRoom(cap) == WillAddNode => Cardinality(NodeIds(G)) < cap

\* A command is counted when it completes: a toolbar or dialog command at
\* once, a mouse gesture at its release.
Tick(cap) == steps < cap /\ steps' = steps + 1 /\ prev' = last
Free == UNCHANGED steps /\ prev' = last

\* Every handler, with every input.
Next ==
    \/ \E m \in Modes : Tick(MaxSteps) /\ set_mode(m)
    \/ Tick(MaxSteps) /\ toggle_view
    \/ \E n \in NodeIds(G) : Free /\ node_press(n)
    \/ \E e \in EdgeIds(G) : Free /\ edge_delete_press(e)
    \/ Free /\ background_press
    \/ \E far \in BOOLEAN, pos \in PosInputs : Free /\ on_mouse_drag(far, pos)
    \/ \E pos \in PosInputs, is_hard \in BOOLEAN :
          Tick(MaxSteps) /\ NodeRoom(MaxNodes) /\ on_mouse_up(pos, is_hard)
    \/ \E name \in AgentNames : Tick(MaxSteps) /\ create_agent(name)
    \/ \E a \in AgentNames, b \in AgentNames : Tick(MaxSteps) /\ edit_agent_save(a, b)
    \/ \E a \in AgentNames : Tick(MaxSteps) /\ edit_agent_delete(a)
    \/ \E n \in NodeIds(G) : Free /\ on_sidebar_node_press(n)
    \/ \E t \in AgentNames \cup {""} : Tick(MaxSteps) /\ on_sidebar_node_release(t)
    \/ \E n \in NodeIds(G), c \in SUBSET SeqToSet(agents) : Tick(MaxSteps) /\ save_shares(n, c)
    \/ \E n \in NodeIds(G), text \in LabelInputs : Tick(MaxSteps) /\ node_editor_save(n, text)
    \/ \E i \in 1..Len(LAYER_ORDER) : Tick(MaxSteps) /\ on_layer_change(LAYER_ORDER[i])
    \/ \E e \in EdgeIds(G) : Tick(MaxSteps) /\ flip_edge(e)
    \/ \E doc \in ImportDocs : Tick(MaxSteps) /\ load_from_json(doc)
    \/ Tick(MaxSteps) /\ undo
    \/ Tick(MaxSteps) /\ redo

Spec == Init /\ [][Next]_vars

\* The agent editor and the node editor over an imported graph, with Undo and
\* Redo, to a greater depth.
EditSteps == 6
NextEdit ==
    \/ Tick(EditSteps) /\ load_from_json(DocPair)
    \/ Tick(EditSteps) /\ edit_agent_save("A", "B")
    \/ \E a \in {"A", "B"} : Tick(EditSteps) /\ edit_agent_delete(a)
    \/ \E n \in NodeIds(G) : Tick(EditSteps) /\ node_editor_save(n, "X")
    \/ Tick(EditSteps) /\ undo
    \/ Tick(EditSteps) /\ redo

SpecEdit == Init /\ [][NextEdit]_vars

\* Adding nodes one after another, with Undo and Redo, past the history limit.
NextHistory ==
    \/ Free /\ set_mode("ADD_FUNC")
    \/ Free /\ background_press
    \/ Free /\ NodeRoom(HistMaxNodes) /\ on_mouse_up(<<100, 100>>, TRUE)
    \/ Free /\ undo
    \/ Free /\ redo

SpecHistory == Init /\ [][NextHistory]_vars

\* Node drags over an imported graph, in both views, with Undo and Redo.
DragSteps == 4
NextDrag ==
    \/ Tick(DragSteps) /\ load_from_json(DocPair)
    \/ Tick(DragSteps) /\ toggle_view
    \/ \E n \in NodeIds(G) : Free /\ node_press(n)
    \/ \E far \in BOOLEAN, pos \in PosInputs : Free /\ on_mouse_drag(far, pos)
    \/ \E pos \in PosInputs : Tick(DragSteps) /\ on_mouse_up(pos, TRUE)
    \/ Tick(DragSteps) /\ undo
    \/ Tick(DragSteps) /\ redo

SpecDrag == Init /\ [][NextDrag]_vars

\* Clicks in Connect mode across imports, and the gestures that follow a click
\* whose handler raised.
StaleSteps == 7
NextStale ==
    \/ Tick(StaleSteps) /\ set_mode("ADD_EDGE")
    \/ \E doc \in {DocPair, DocShared} : Tick(StaleSteps) /\ load_from_json(doc)
    \/ \E n \in NodeIds(G) : Free /\ node_press(n)
    \/ Free /\ background_press
    \/ Free /\ on_mouse_drag(TRUE, <<220, 260>>)
    \/ Tick(StaleSteps) /\ on_mouse_up(<<220, 260>>, TRUE)

SpecStale == Init /\ [][NextStale]_vars

\* The same clicks with Delete mode and clicks on edges.
ClickSteps == 8
NextStaleClick ==
    \/ \E m \in {"ADD_EDGE", "DELETE"} : Tick(ClickSteps) /\ set_mode(m)
    \/ \E doc \in {DocPair, DocShared} : Tick(ClickSteps) /\ load_from_json(doc)
    \/ \E n \in NodeIds(G) : Free /\ node_press(n)
    \/ \E e \in EdgeIds(G) : Free /\ edge_delete_press(e)
    \/ Tick(ClickSteps) /\ on_mouse_up(<<220, 260>>, TRUE)

SpecStaleClick == Init /\ [][NextStaleClick]_vars

\* F1 -> R1 -> F2: node 1 has an incoming and an outgoing edge.
DocChain ==
    [parses |-> TRUE,
     Nodes |-> <<[key |-> "F1", Type |-> T_DWFunction, UserData |-> "F1"],
                 [key |-> "R1", Type |-> T_BEResource, UserData |-> "R1"],
                 [key |-> "F2", Type |-> T_DWFunction, UserData |-> "F2"]>>,
     Edges |-> <<[Source |-> "F1", Target |-> "R1", type |-> EDGE_TYPE_HARD],
                 [Source |-> "R1", Target |-> "F2", type |-> EDGE_TYPE_SOFT]>>,
     Agents |-> <<[name |-> "A", Authority |-> <<"R1", "F2">>]>>]

\* Clicks in Delete and Connect mode over imports of ever smaller graphs (three
\* nodes, then two, then one), where a click whose handler raised leaves its
\* node behind as the node of the next release.  A change of mode is not
\* counted as a step.
DeleteSteps == 6
NextDelete ==
    \/ Tick(DeleteSteps) /\ NodeIds(G) = {} /\ load_from_json(DocChain)
    \/ Tick(DeleteSteps) /\ 2 \in NodeIds(G) /\ load_from_json(DocPair)
    \/ Tick(DeleteSteps) /\ 1 \in NodeIds(G) /\ 2 \notin NodeIds(G) /\ load_from_json(DocShared)
    \/ \E m \in {"ADD_EDGE", "DELETE"} : Free /\ set_mode(m)
    \/ \E n \in NodeIds(G) : Free /\ node_press(n)
    \/ Free /\ background_press
    \/ Tick(DeleteSteps) /\ on_mouse_up(<<100, 100>>, TRUE)

SpecDelete == Init /\ [][NextDelete]_vars

\* F1 -> R1 <- F2, F2 owned by A.
DocFan ==
    [parses |-> TRUE,
     Nodes |-> <<[key |-> "F1", Type |-> T_DWFunction, UserData |-> "F1"],
                 [key |-> "F2", Type |-> T_SyncFunction, UserData |-> "F2"],
                 [key |-> "R1", Type |-> T_BEResource, UserData |-> "R1"]>>,
     Edges |-> <<[Source |-> "F1", Target |-> "R1", type |-> EDGE_TYPE_HARD],
                 [Source |-> "F2", Target |-> "R1", type |-> EDGE_TYPE_SOFT]>>,
     Agents |-> <<[name |-> "A", Authority |-> <<"F2">>]>>]

\* Save JSON followed by Open JSON of the same file, on graphs made by adding
\* Function nodes by hand and on an imported graph whose labels are edited.
\* A change of mode is not counted as a step.
RoundSteps == 4
RoundNodes == 2
NextRound ==
    \/ Tick(RoundSteps) /\ load_from_json(DocFan)
    \/ Free /\ set_mode("ADD_FUNC")
    \/ Free /\ background_press
    \/ Tick(RoundSteps) /\ NodeRoom(RoundNodes) /\ on_mouse_up(<<100, 100>>, TRUE)
    \/ \E n \in NodeIds(G) : Tick(RoundSteps) /\ node_editor_save(n, "F1")
    \/ Tick(RoundSteps) /\ save_then_load

SpecRound == Init /\ [][NextRound]_vars

\* F1 and R1 with three edges, the second of which has no "Source".
DocBadEdge ==
    [parses |-> TRUE,
     Nodes |-> <<[key |-> "F1", Type |-> T_DWFunction, UserData |-> "F1"],
                 [key |-> "R1", Type |-> T_BEResource, UserData |-> "R1"]>>,
     Edges |-> <<[Source |-> "F1", Target |-> "R1", type |-> EDGE_TYPE_HARD],
                 [Target |-> "F1", type |-> EDGE_TYPE_SOFT],
                 [Source |-> "R1", Target |-> "F1", type |-> EDGE_TYPE_SOFT]>>,
     Agents |-> <<[name |-> "A", Authority |-> <<"F1">>]>>]

\* F1 and then a node whose value is a string instead of an object.
DocBadNode ==
    [parses |-> TRUE,
     Nodes |-> <<[key |-> "F1", Type |-> T_DWFunction, UserData |-> "F1"],
                 [key |-> "R1", scalar |-> "BaseEnvironmentResource"]>>,
     Edges |-> <<[Source |-> "F1", Target |-> "R1", type |-> EDGE_TYPE_HARD]>>,
     Agents |-> <<[name |-> "B", Authority |-> <<"F1">>]>>]

\* F1 and R1, an edge from a label that is no node, R1 -> F1, and an edge to a
\* label that is no node.
DocLoose ==
    [parses |-> TRUE,
     Nodes |-> <<[key |-> "F1", Type |-> T_DWFunction, UserData |-> "F1"],
                 [key |-> "R1", Type |-> T_BEResource, UserData |-> "R1"]>>,
     Edges |-> <<[Source |-> "Z9", Target |-> "F1", type |-> EDGE_TYPE_HARD],
                 [Source |-> "R1", Target |-> "F1", type |-> EDGE_TYPE_SOFT],
                 [Source |-> "F1", Target |-> "Q7", type |-> EDGE_TYPE_HARD]>>,
     Agents |-> <<>>]

ImportInputs == {DocBad, DocPair, DocLoose, DocBadEdge, DocBadNode}

\* Imports of good and bad files, with Undo and Redo.
ImportSteps == 4
NextImport ==
    \/ \E doc \in ImportInputs : Tick(ImportSteps) /\ load_from_json(doc)
    \/ Tick(ImportSteps) /\ undo
    \/ Tick(ImportSteps) /\ redo

SpecImport == Init /\ [][NextImport]_vars

\* K1 with a Type whose prefix is no layer, K2 with an empty Type.
DocOdd ==
    [parses |-> TRUE,
     Nodes |-> <<[key |-> "K1", Type |-> <<"F", "o", "o">> \o S_Function, UserData |-> "K1"],
                 [key |-> "K2", Type |-> <<>>, UserData |-> "K2"]>>,
     Edges |-> <<>>,
     Agents |-> <<>>]

\* The pointer positions of the layer scenario: near the second layer line,
\* and farther than 9999 from every layer line.
LayerPos == {<<220, 260>>, <<220, 20000>>}

\* Everything that writes a layer: node creation, the inspector's layer box,
\* the snap of a drag in the layered view, import, Undo and Redo.  A change of
\* mode is not counted as a step.
LayerSteps == 4
LayerNodes == 3
NextLayer ==
    \/ Tick(LayerSteps) /\ load_from_json(DocOdd)
    \/ Tick(LayerSteps) /\ toggle_view
    \/ Free /\ set_mode("ADD_RES")
    \/ \E n \in NodeIds(G) : Free /\ node_press(n)
    \/ Free /\ background_press
    \/ \E pos \in LayerPos : Free /\ on_mouse_drag(TRUE, pos)
    \/ \E pos \in LayerPos : Tick(LayerSteps) /\ NodeRoom(LayerNodes) /\ on_mouse_up(pos, TRUE)
    \/ \E i \in 1..Len(LAYER_ORDER) : Tick(LayerSteps) /\ on_layer_change(LAYER_ORDER[i])
    \/ Tick(LayerSteps) /\ undo
    \/ Tick(LayerSteps) /\ redo

SpecLayer == Init /\ [][NextLayer]_vars

\* Clicks in Connect mode on an imported graph with two nodes of one type and
\* one of the other, with either answer to the Hard/Soft question.
ConnectSteps == 6
NextConnect ==
    \/ Tick(ConnectSteps) /\ load_from_json(DocTrio)
    \/ Tick(ConnectSteps) /\ set_mode("ADD_EDGE")
    \/ \E n \in NodeIds(G) : Free /\ node_press(n)
    \/ \E is_hard \in BOOLEAN : Tick(ConnectSteps) /\ on_mouse_up(<<100, 100>>, is_hard)

SpecConnect == Init /\ [][NextConnect]_vars

\* Construction from the empty graph with the interactive commands only: add
\* node, connect, delete node and edge, flip, label, layer and agent edits,
\* Undo and Redo.  A change of mode is not counted as a step.
BuildSteps == 5
BuildNodes == 2
NextBuild ==
    \/ \E m \in {"ADD_FUNC", "ADD_RES", "ADD_EDGE", "DELETE"} : Free /\ set_mode(m)
    \/ Free /\ background_press
    \/ \E n \in NodeIds(G) : Free /\ node_press(n)
    \/ \E e \in EdgeIds(G) : Free /\ edge_delete_press(e)
    \/ Tick(BuildSteps) /\ NodeRoom(BuildNodes) /\ on_mouse_up(<<100, 100>>, TRUE)
    \/ \E e \in EdgeIds(G) : Tick(BuildSteps) /\ flip_edge(e)
    \/ \E n \in NodeIds(G) \cap {0} : Tick(BuildSteps) /\ node_editor_save(n, "X")
    \/ Tick(BuildSteps) /\ on_layer_change("Synchrony")
    \/ \E n \in NodeIds(G) \cap {0} : Tick(BuildSteps) /\ save_shares(n, {})
    \/ Tick(BuildSteps) /\ undo
    \/ Tick(BuildSteps) /\ redo

SpecBuild == Init /\ [][NextBuild]_vars

-----------------------------------------------------------------------------
(* Metrics and highlights *)

\* calculate_metric(G, "Density"): nx.density of a directed graph, m / (n(n-1))
\* and 0 when m = 0 or n <= 1, in thousandths as "{:.3f}" prints it (rounded
\* to the nearest thousandth); "0" for the empty graph.
Density(g) ==
    LET n == Cardinality(NodeIds(g))
        m == Cardinality(EdgeIds(g))
    IN  IF n <= 1 \/ m = 0 THEN 0
        ELSE (2000 * m + n * (n - 1)) \div (2 * n * (n - 1))

\* nx.simple_cycles(G): the simple directed cycles of g, self-loops included,
\* each as the list of its nodes from its smallest node on.  CycleGrow takes
\* the simple paths P of one length whose nodes all exceed their first and
\* returns the cycles closed by P and by every longer path.
CycleStep(g, P) ==
    UNION {{Append(p, v) : v \in {w \in NodeIds(g) :
                                     /\ <<p[Len(p)], w>> \in EdgeIds(g)
                                     /\ w > p[1]
                                     /\ \A i \in 1..Len(p) : p[i] # w}} : p \in P}

RECURSIVE CycleGrow(_, _)
CycleGrow(g, P) ==
    IF P = {} THEN {}
    ELSE {p \in P : <<p[Len(p)], p[1]>> \in EdgeIds(g)} \cup CycleGrow(g, CycleStep(g, P))

simple_cycles(g) == CycleGrow(g, {<<n>> : n \in NodeIds(g)})

\* The cap in calculate_metric's Total Cycles loop.
CYCLE_CAP == 100

\* The loop with "100+" as soon as count reaches 100.
RECURSIVE CountCyclesAtCap(_, _)
CountCyclesAtCap(todo, count) ==
    IF todo = 0 THEN [plus |-> FALSE, shown |-> count, drawn |-> count]
    ELSE IF count + 1 >= CYCLE_CAP
         THEN [plus |-> TRUE, shown |-> CYCLE_CAP, drawn |-> count + 1]
         ELSE CountCyclesAtCap(todo - 1, count + 1)

\* The loop of the Total Cycles branch over the todo cycles the generator
\* still holds: count += 1, and "100+" as soon as count > 100.  The result is
\* the text shown (plus: "100+", else str(shown)) and the number of cycles
\* drawn from the generator.
RECURSIVE CountCycles(_, _)
CountCycles(todo, count) ==
    IF todo = 0 THEN [plus |-> FALSE, shown |-> count, drawn |-> count]
    ELSE IF count + 1 > CYCLE_CAP
         THEN [plus |-> TRUE, shown |-> CYCLE_CAP, drawn |-> count + 1]
         ELSE CountCycles(todo - 1, count + 1)

\* calculate_metric(G, "Total Cycles").
TotalCycles(g) == CountCycles(Cardinality(simple_cycles(g)), 0)

\* list(nx.simple_cycles(G)): the cycles in the order the generator yields
\* them, one fixed order for a given graph; here shorter cycles first and
\* cycles of one length by their nodes (CycleKey reads a cycle as a number
\* with the digits node + 1 in base b).
CycleKey(c, b) ==
    LET f[i \in 0..Len(c)] == IF i = 0 THEN 0 ELSE f[i - 1] * b + c[i] + 1
    IN  f[Len(c)]

cycles(g) ==
    LET S == simple_cycles(g)
        b == Max(NodeIds(g) \cup {0}) + 2
        key == [c \in S |-> CycleKey(c, b)]
        rank == [c \in S |-> Cardinality({d \in S : key[d] < key[c]})]
    IN  [i \in 1..Cardinality(S) |-> CHOOSE c \in S : rank[c] = i - 1]

\* neon_colors of get_cycle_highlights and of get_single_cycle_highlight.
neon_colors ==
    <<"#FF1493", "#00FF00", "#00FFFF", "#FFD700",
      "#FF4500", "#9400D3", "#32CD32", "#1E90FF">>
single_neon_colors ==
    <<"#FF1493", "#00C000", "#DE52D0", "#FFD700",
      "#FF4500", "#9400D3", "#32CD32", "#060C12">>

\* cycle_edges: the edges of a cycle, the last node connected back to the
\* first.
cycle_edges(path) ==
    [j \in 1..Len(path) |-> <<path[j], path[(j % Len(path)) + 1]>>]

\* get_cycle_highlights(G): one group per cycle of the whole enumeration.
get_cycle_highlights(g) ==
    LET cs == cycles(g)
    IN  [i \in 1..Len(cs) |->
           [nodes |-> cs[i], edges |-> cycle_edges(cs[i]),
            color |-> neon_colors[((i - 1) % Len(neon_colors)) + 1],
            width |-> 8]]

\* get_single_cycle_highlight(G, cycle_index), cycle_index counted from 0.
get_single_cycle_highlight(g, cycle_index) ==
    LET cs == cycles(g)
    IN  IF cycle_index < 0 \/ cycle_index >= Len(cs) THEN <<>>
        ELSE <<[nodes |-> cs[cycle_index + 1],
                edges |-> cycle_edges(cs[cycle_index + 1]),
                color |-> single_neon_colors[(cycle_index % Len(single_neon_colors)) + 1],
                width |-> 10]>>

\* A file of six nodes K0..K5 with the edges es between them (pairs of
\* indices from 0), all hard.
KeyOf(i) == <<"K0", "K1", "K2", "K3", "K4", "K5">>[i + 1]
DocSix(es) ==
    [parses |-> TRUE,
     Nodes |-> [i \in 1..6 |->
                  [key |-> KeyOf(i - 1),
                   Type |-> IF i % 2 = 1 THEN T_DWFunction ELSE T_BEResource,
                   UserData |-> KeyOf(i - 1)]],
     Edges |-> [i \in 1..Len(es) |->
                  [Source |-> KeyOf(es[i][1]), Target |-> KeyOf(es[i][2]),
                   type |-> EDGE_TYPE_HARD]],
     Agents |-> <<>>]

\* Six nodes and 21 edges with exactly 100 simple cycles, and the same with
\* K5 -> K1 added, which has more.
HundredEdges ==
    <<<<0, 1>>, <<0, 2>>, <<0, 4>>, <<0, 5>>, <<1, 3>>, <<1, 4>>, <<1, 5>>,
      <<2, 0>>, <<2, 1>>, <<2, 3>>, <<2, 4>>, <<3, 0>>, <<3, 1>>, <<3, 2>>,
      <<3, 5>>, <<4, 1>>, <<4, 2>>, <<4, 3>>, <<5, 0>>, <<5, 2>>, <<5, 4>>>>
DocHundred == DocSix(HundredEdges)
DocMany == DocSix(Append(HundredEdges, <<5, 1>>))

\* G.edges() as a list, by source and then target.
EdgeList(g, E) ==
    LET width == Max(NodeIds(g) \cup {0}) + 1
        order == SortedIds({e[1] * width + e[2] : e \in E})
    IN  [i \in 1..Len(order) |-> <<order[i] \div width, order[i] % width>>]

\* G.nodes[n].get('agent', 'Unassigned'): the value itself, a string or a
\* list, as Python's != compares it.
AgentValue(g, h, n) == GraphValue(g, h).nodes[n].agent

\* The edges with agent_u != agent_v.
cross_edges(g, h) ==
    {e \in EdgeIds(g) : AgentValue(g, h, e[1]) # AgentValue(g, h, e[2])}

\* calculate_metric(G, "Interdependence") in thousandths, as "{:.3f}" prints
\* it: "0" for the empty graph, "0.000" without edges.
Interdependence(g, h) ==
    LET m == Cardinality(EdgeIds(g))
    IN  IF NodeIds(g) = {} \/ m = 0 THEN 0
        ELSE (2000 * Cardinality(cross_edges(g, h)) + m) \div (2 * m)

\* get_interdependence_highlights(G)
get_interdependence_highlights(g, h) ==
    LET E == cross_edges(g, h)
    IN  IF E = {} THEN <<>>
        ELSE <<[nodes |-> SortedIds({e[1] : e \in E} \cup {e[2] : e \in E}),
                edges |-> EdgeList(g, E),
                color |-> "#FF0000", width |-> 8]>>

\* F1 -> R1 where A has authority over both and B over F1.
DocOverlap ==
    [parses |-> TRUE,
     Nodes |-> <<[key |-> "F1", Type |-> T_DWFunction, UserData |-> "F1"],
                 [key |-> "R1", Type |-> T_BEResource, UserData |-> "R1"]>>,
     Edges |-> <<[Source |-> "F1", Target |-> "R1", type |-> EDGE_TYPE_HARD]>>,
     Agents |-> <<[name |-> "A", Authority |-> <<"F1", "R1">>],
                  [name |-> "B", Authority |-> <<"F1">>]>>]

\* F1 <-> R1 <-> F2: two cycles of two nodes; A has authority over R1.
DocRing ==
    [parses |-> TRUE,
     Nodes |-> <<[key |-> "F1", Type |-> T_DWFunction, UserData |-> "F1"],
                 [key |-> "R1", Type |-> T_BEResource, UserData |-> "R1"],
                 [key |-> "F2", Type |-> T_DWFunction, UserData |-> "F2"]>>,
     Edges |-> <<[Source |-> "F1", Target |-> "R1", type |-> EDGE_TYPE_HARD],
                 [Source |-> "R1", Target |-> "F1", type |-> EDGE_TYPE_SOFT],
                 [Source |-> "R1", Target |-> "F2", type |-> EDGE_TYPE_SOFT],
                 [Source |-> "F2", Target |-> "R1", type |-> EDGE_TYPE_HARD]>>,
     Agents |-> <<[name |-> "A", Authority |-> <<"R1">>]>>]

\* F1 and R1 with F1 -> F1, F1 -> R1 and R1 -> F1.
DocLoop ==
    [parses |-> TRUE,
     Nodes |-> <<[key |-> "F1", Type |-> T_DWFunction, UserData |-> "F1"],
                 [key |-> "R1", Type |-> T_BEResource, UserData |-> "R1"]>>,
     Edges |-> <<[Source |-> "F1", Target |-> "F1", type |-> EDGE_TYPE_HARD],
                 [Source |-> "F1", Target |-> "R1", type |-> EDGE_TYPE_HARD],
                 [Source |-> "R1", Target |-> "F1", type |-> EDGE_TYPE_SOFT]>>,
     Agents |-> <<[name |-> "A", Authority |-> <<"F1">>]>>]

MetricDocs == {DocPair, DocChain, DocLoop, DocOverlap}

\* The metrics and highlights over imported graphs and what is left of them
\* after nodes are deleted, with Undo and Redo.  A change of mode is not
\* counted as a step.
MetricSteps == 3
NextMetric ==
    \/ \E doc \in MetricDocs : Tick(MetricSteps) /\ load_from_json(doc)
    \/ Free /\ set_mode("DELETE")
    \/ \E n \in NodeIds(G) : Free /\ node_press(n)
    \/ Tick(MetricSteps) /\ on_mouse_up(<<100, 100>>, TRUE)
    \/ Tick(MetricSteps) /\ undo
    \/ Tick(MetricSteps) /\ redo

SpecMetric == Init /\ [][NextMetric]_vars

\* nx.community.greedy_modularity_communities(G.to_undirected()): a partition
\* of the nodes into communities, which the library chooses; here any
\* partition, given as the set of its communities, and no community at all
\* for a call that raises (the callers catch it and show no group).
Communities(g) ==
    {P \in SUBSET (SUBSET NodeIds(g) \ {{}}) :
        /\ UNION P = NodeIds(g)
        /\ \A a \in P : \A b \in P : a # b => a \cap b = {}} \cup {{}}

\* The communities of P as a list: the smallest node of each in increasing
\* order.
CommunityList(P) ==
    LET firsts == SortedIds({Min(c) : c \in P})
    IN  [i \in 1..Len(firsts) |-> CHOOSE c \in P : Min(c) = firsts[i]]

\* communities.sort(key=len, reverse=True): by decreasing size, communities of
\* one size in the order they had.
SortBySize(cs) ==
    LET before(i, j) == \/ Cardinality(cs[i]) > Cardinality(cs[j])
                        \/ Cardinality(cs[i]) = Cardinality(cs[j]) /\ i < j
        place(i) == 1 + Cardinality({j \in 1..Len(cs) : before(j, i)})
    IN  [k \in 1..Len(cs) |-> cs[CHOOSE i \in 1..Len(cs) : place(i) = k]]

community_colors ==
    <<"#FF6B6B", "#4ECDC4", "#45B7D1", "#FFA07A",
      "#98D8C8", "#F7DC6F", "#BB8FCE", "#B2BABB">>

\* One group of a community: its nodes and the edges inside it.
CommunityGroup(g, c, i) ==
    [nodes |-> SortedIds(c),
     edges |-> EdgeList(g, {e \in EdgeIds(g) : e[1] \in c /\ e[2] \in c}),
     color |-> community_colors[((i - 1) % Len(community_colors)) + 1],
     width |-> 10]

\* get_modularity_highlights(G), the library having returned P.
get_modularity_highlights(g, P) ==
    LET cs == CommunityList(P)
    IN  [i \in 1..Len(cs) |-> CommunityGroup(g, cs[i], i)]

\* get_single_modularity_highlight(G, group_index), group_index from 0.
get_single_modularity_highlight(g, P, group_index) ==
    LET cs == SortBySize(CommunityList(P))
    IN  IF group_index < 0 \/ group_index >= Len(cs) THEN <<>>
        ELSE <<CommunityGroup(g, cs[group_index + 1], group_index + 1)>>

\* The values of active_vis_mode: None, the three names, and f"cycle_{index}"
\* and f"mod_group_{index}" as the pair of the prefix and the index.
NoMode == <<>>
VisModes == {<<"cycles">>, <<"interdependence">>, <<"modularity">>}
cycle_mode(index) == <<"cycle_", index>>
mod_group_mode(index) == <<"mod_group_", index>>

\* trigger_visual_analytics(mode); P: the communities the library returns
trigger_visual_analytics(vis, P) ==
    /\ button = "up"
    /\ vis \in VisModes
    /\ P \in Communities(G)
    /\ IF active_vis_mode = vis
       THEN /\ current_highlights' = <<>>
            /\ active_vis_mode' = NoMode
       ELSE /\ active_vis_mode' = vis
            /\ current_highlights' =
                  IF vis = <<"cycles">> THEN get_cycle_highlights(G)
                  ELSE IF vis = <<"interdependence">>
                       THEN get_interdependence_highlights(G, heap)
                       ELSE get_modularity_highlights(G, P)
    /\ last' = "vis"
    /\ UNCHANGED <<G, heap, agents, histVars, selected_node, inspected_node,
                   mouseVars, sidebarVars, mode, view_mode>>

\* trigger_single_cycle_vis(index): a click on entry index of the cycle list
\* of the dashboard
trigger_single_cycle_vis(index) ==
    /\ button = "up"
    /\ index \in 0..(Len(cycles(G)) - 1)
    /\ current_highlights' = get_single_cycle_highlight(G, index)
    /\ active_vis_mode' = cycle_mode(index)
    /\ last' = "vis_cycle"
    /\ UNCHANGED <<G, heap, agents, histVars, selected_node, inspected_node,
                   mouseVars, sidebarVars, mode, view_mode>>

\* trigger_single_modularity_vis(index): a click on entry index of the group
\* list of the dashboard; P: the communities the library returns
trigger_single_modularity_vis(index, P) ==
    /\ button = "up"
    /\ P \in Communities(G)
    /\ index \in 0..(Cardinality(P) - 1)
    /\ current_highlights' = get_single_modularity_highlight(G, P, index)
    /\ active_vis_mode' = mod_group_mode(index)
    /\ last' = "vis_group"
    /\ UNCHANGED <<G, heap, agents, histVars, selected_node, inspected_node,
                   mouseVars, sidebarVars, mode, view_mode>>

\* The highlights over imported graphs, with node selection, node deletion,
\* Undo and Redo.  A change of mode and a press are not counted as steps.
VisDocs == {DocChain, DocRing, DocOverlap}
VisSteps == 3
MaxVisIndex == 1
NextVis ==
    \/ \E doc \in VisDocs : Tick(VisSteps) /\ load_from_json(doc)
    \/ \E vis \in VisModes : \E P \in Communities(G) :
          Tick(VisSteps) /\ trigger_visual_analytics(vis, P)
    \/ \E i \in 0..MaxVisIndex : Tick(VisSteps) /\ trigger_single_cycle_vis(i)
    \/ \E i \in 0..MaxVisIndex : \E P \in Communities(G) :
          Tick(VisSteps) /\ trigger_single_modularity_vis(i, P)
    \/ \E m \in {"ADD_EDGE", "DELETE"} : Free /\ set_mode(m)
    \/ \E n \in NodeIds(G) : Free /\ node_press(n)
    \/ Tick(VisSteps) /\ on_mouse_up(<<100, 100>>, TRUE)
    \/ Tick(VisSteps) /\ undo
    \/ Tick(VisSteps) /\ redo

SpecVis == Init /\ [][NextVis]_vars

\* Total Cycles at its cap: the two six-node files and what is left of them
\* after nodes are deleted, with Undo and Redo.
CycleDocs == {DocHundred, DocMany}
CycleSteps == 3
NextCycle ==
    \/ \E doc \in CycleDocs : Tick(CycleSteps) /\ load_from_json(doc)
    \/ Free /\ set_mode("DELETE")
    \/ \E n \in NodeIds(G) : Free /\ node_press(n)
    \/ Tick(CycleSteps) /\ on_mouse_up(<<100, 100>>, TRUE)
    \/ Tick(CycleSteps) /\ undo
    \/ Tick(CycleSteps) /\ redo

SpecCycle == Init /\ [][NextCycle]_vars

-----------------------------------------------------------------------------
(* Claims *)

\* The branches in which save_state ran.
Saved ==
    {"add_node", "delete_node", "KeyError_delete", "add_edge", "delete_edge",
     "finalize_drag", "KeyError_finalize", "rename_agent", "delete_agent",
     "sidebar_assign", "save_shares", "set_label", "set_layer", "flip_edge", "load",
     "load_raised"}

\* C1: an Undo that follows mutation commands, or earlier Undos of them,
\* restores exactly the graph that existed before the mutation it takes back
\* (nodes, attributes, edges, edge types, and the agent set of every node); N
\* Undos after N mutations therefore restore the graph before the first.
C1_UndoRestores ==
    [][(last' = "undo" /\ last \in Saved \cup {"undo"})
          => GraphView(G', heap') = ValueView(Last(undo_truth))]_vars

\* C2: every Redo restores the graph exactly as it was when the matching Undo
\* was called, so k Undos followed by k Redos with no mutation in between end
\* on the graph that existed before the first Undo.
C2_RedoInvertsUndo ==
    [][last' = "redo" => GraphValue(G', heap') = Last(redo_truth)]_vars

\* Two Undos and two Redos have brought back the graph in which agent A was
\* renamed to B.
C2_Witness ==
    /\ last = "redo" /\ prev = "redo"
    /\ redo_stack = <<>>
    /\ Len(undo_stack) = 2
    /\ \E n \in NodeIds(G) : "B" \in AgentSet(G, heap, n)

\* C3: every snapshot on the undo stack and on the redo stack still has the
\* content it had when it was pushed.
C3_SnapshotsImmutable ==
    /\ \A i \in 1..Len(undo_stack) : GraphValue(undo_stack[i], heap) = undo_truth[i]
    /\ \A i \in 1..Len(redo_stack) : GraphValue(redo_stack[i], heap) = redo_truth[i]

\* C4: the undo stack never holds more than HISTORY_LIMIT snapshots, and a
\* push onto a full stack evicts the oldest snapshot and keeps the others in
\* order below the new one.
C4_UndoStackBounded ==
    [][/\ Len(undo_stack') <= HISTORY_LIMIT
       /\ (last' \in Saved /\ Len(undo_stack) = HISTORY_LIMIT)
             => /\ Len(undo_stack') = HISTORY_LIMIT
                /\ SubSeq(undo_stack', 1, HISTORY_LIMIT - 1) = Tail(undo_stack)
                /\ Last(undo_stack') = GraphCopy(G)]_vars

\* The forty-first node has been added: the stack is full, and its oldest
\* snapshot is no longer the empty graph but the graph of one node.
C4_Witness ==
    /\ last = "add_node"
    /\ Cardinality(NodeIds(G)) = HISTORY_LIMIT + 1
    /\ Len(undo_stack) = HISTORY_LIMIT
    /\ NodeIds(undo_stack[1]) = {0}

\* A step pushed exactly one snapshot onto the undo stack.
OnePush == undo_stack' # <<>> /\ undo_stack' = PushSnapshot(undo_stack, Last(undo_stack'))

\* C5: every step that changes the graph belongs to a command that pushes a
\* snapshot and empties the redo stack, the snapshot being equal to the graph
\* before the command's first write (for a drag, the graph when the mouse
\* button went down); a Redo straight after such a command changes neither
\* the graph nor a stack.
C5_SnapshotBeforeMutation ==
    [][/\ (G' # G \/ heap' # heap) => last' \in Saved \cup {"drag_move", "undo", "redo"}
       /\ last' \in Saved
             => /\ OnePush
                /\ redo_stack' = <<>>
                /\ GraphValue(Last(undo_stack'), heap) =
                      IF last' \in {"finalize_drag", "KeyError_finalize"}
                      THEN press_truth ELSE GraphValue(G, heap)
       /\ (last \in Saved /\ last' \in {"redo", "redo_nothing"})
             => UNCHANGED <<G, undo_stack, redo_stack>>]_vars

\* The commands of the mutation surface, by the branch that applies them.
SurfaceCommands ==
    {"add_node", "delete_node", "add_edge", "delete_edge", "set_label", "set_layer",
     "finalize_drag", "flip_edge", "sidebar_assign", "save_shares", "create_agent",
     "rename_agent", "delete_agent"}

\* C6: every applied command of the mutation surface, CreateAgent among them,
\* pushes exactly one snapshot; in particular the release that completes a
\* click which removed an edge pushes no second one.
C6_OneSnapshotPerCommand ==
    [][/\ last' \in SurfaceCommands => OnePush
       /\ (last = "delete_edge" /\ button' = "up") => undo_stack' = undo_stack]_vars

\* C7: a drag that began with a press on a node pushes nothing before the
\* release and exactly one snapshot at the release, that snapshot is the graph
\* as it was at the press, and an Undo straight after the release restores the
\* graph of the press, the node's position and layer with it.
C7_DragOneSnapshot ==
    [][/\ (pressed' = "node" /\ button' = "canvas") => undo_stack' = undo_stack
       /\ (pressed = "node" /\ is_dragging /\ button = "canvas" /\ button' = "up")
             => /\ OnePush
                /\ GraphValue(Last(undo_stack'), heap') = press_truth
       /\ (pressed = "node" /\ last = "finalize_drag" /\ last' = "undo")
             => GraphView(G', heap') = ValueView(press_truth)]_vars

\* A node was dragged in the layered view to another position and layer, and
\* the Undo after the release has put it back.
C7_Witness ==
    /\ last = "undo" /\ prev = "finalize_drag" /\ pressed = "node"
    /\ redo_stack # <<>>
    /\ \E n \in NodeIds(G) \cap NodeIds(Last(redo_stack)) :
          /\ G.nodes[n].pos # Last(redo_stack).nodes[n].pos
          /\ G.nodes[n].layer # Last(redo_stack).nodes[n].layer

\* C8: every node's agent collection is non-empty.
C8_AgentsNonEmpty ==
    \A n \in NodeIds(G) : AgentList(G, heap, n) # <<>>

\* C9: no node has Unassigned together with a real agent: a node's agent set
\* is {Unassigned} or does not contain Unassigned.
C9_UnassignedAlone ==
    \A n \in NodeIds(G) :
        AgentSet(G, heap, n) = {"Unassigned"} \/ "Unassigned" \notin AgentSet(G, heap, n)

\* C10: Unassigned is in the agent registry in every reachable state.
C10_UnassignedRegistered ==
    "Unassigned" \in SeqToSet(agents)

\* C11: the agent toggle is an involution: in every reachable state, for every
\* node and every agent name, two applications of assign_agent_logic with that
\* name leave the node with the agent set it had.
C11_ToggleInvolution ==
    \A n \in NodeIds(G), a \in AgentNames :
        LET once == assign_agent_logic(G, heap, n, a)
            twice == assign_agent_logic(once[1], once[2], n, a)
        IN  AgentSet(twice[1], twice[2], n) = AgentSet(G, heap, n)

\* C12: after delete_agent(A), A other than Unassigned, no node references A,
\* a node whose agent set was exactly {A} has {Unassigned}, and every other
\* node's agent set is its previous set minus A; after rename_agent(A, B) no
\* node references A and every node that referenced A references B.
C12_DeleteRenameAgent ==
    [][\A a \in AgentNames, b \in AgentNames :
          /\ edit_agent_delete(a) =>
                \A n \in NodeIds(G) :
                    /\ n \in NodeIds(G')
                    /\ a \notin AgentSet(G', heap', n)
                    /\ AgentSet(G', heap', n) =
                          IF AgentSet(G, heap, n) = {a}
                          THEN {"Unassigned"}
                          ELSE AgentSet(G, heap, n) \ {a}
          /\ (a # b /\ edit_agent_save(a, b)) =>
                \A n \in NodeIds(G) :
                    /\ n \in NodeIds(G')
                    /\ a \notin AgentSet(G', heap', n)
                    /\ a \in AgentSet(G, heap, n) => b \in AgentSet(G', heap', n)
      ]_vars

\* The release of a click on node v in Connect mode while node u is the
\* pending source.
ConnectClick(u, v) ==
    /\ mode = "ADD_EDGE"
    /\ button = "canvas" /\ button' = "up"
    /\ pressed = "node" /\ ~is_dragging
    /\ selected_node = u /\ drag_node = v /\ u # v
    /\ {u, v} \subseteq NodeIds(G)

\* C13: a connection requested in Connect mode between two nodes of the same
\* type is not applied: nodes, edges, attributes and the undo and redo stacks
\* are unchanged, and the pending source selection is cleared.
C13_SameTypeRefused ==
    [][\A u \in NodeIds(G), v \in NodeIds(G) :
          (ConnectClick(u, v) /\ G.nodes[u].type = G.nodes[v].type)
             => /\ G' = G
                /\ heap' = heap
                /\ undo_stack' = undo_stack
                /\ redo_stack' = redo_stack
                /\ selected_node' = NoNode]_vars

\* C15: in Connect mode, for every pair of distinct nodes u and v of different
\* types, node 0 as source included, choosing u and then v creates the edge
\* u -> v with the type chosen in the Hard/Soft dialog and no other edge.
C15_ConnectCreatesEdge ==
    [][\A u \in NodeIds(G), v \in NodeIds(G), is_hard \in BOOLEAN, pos \in PosInputs :
          (/\ ConnectClick(u, v)
           /\ G.nodes[u].type # G.nodes[v].type
           /\ on_mouse_up(pos, is_hard))
             => /\ EdgeIds(G') = EdgeIds(G) \cup {<<u, v>>}
                /\ G'.edges[<<u, v>>] = IF is_hard THEN EDGE_TYPE_HARD ELSE EDGE_TYPE_SOFT
                /\ \A e \in EdgeIds(G) \ {<<u, v>>} : G'.edges[e] = G.edges[e]
                /\ G'.nodes = G.nodes]_vars

\* C14: in a graph built from the empty graph with the interactive commands and
\* no import, every edge joins a Function node and a Resource node, and no
\* edge is a self-loop.
C14_Bipartite ==
    \A e \in EdgeIds(G) :
        /\ e[1] # e[2]
        /\ {e[1], e[2]} \subseteq NodeIds(G)
        /\ {G.nodes[e[1]].type, G.nodes[e[2]].type} = {"Function", "Resource"}

\* An edge was drawn between two nodes added by hand and then flipped to Soft.
C14_Witness ==
    /\ last = "flip_edge"
    /\ \E e \in EdgeIds(G) : G.edges[e] = EDGE_TYPE_SOFT

\* The edges of g that start or end at node n.
Incident(g, n) == {e \in EdgeIds(g) : e[1] = n \/ e[2] = n}

NodeTuple(g, h, n) ==
    <<g.nodes[n].label, g.nodes[n].type, g.nodes[n].layer, AgentSet(g, h, n)>>

\* The two graphs have the same multiset of node tuples.
SameNodeBag(g1, h1, g2, h2) ==
    \A t \in {NodeTuple(g1, h1, n) : n \in NodeIds(g1)}
              \cup {NodeTuple(g2, h2, n) : n \in NodeIds(g2)} :
        Cardinality({n \in NodeIds(g1) : NodeTuple(g1, h1, n) = t})
            = Cardinality({n \in NodeIds(g2) : NodeTuple(g2, h2, n) = t})

\* C17: Export followed by Import preserves the nodes: the multiset of (label,
\* type, layer, agent set) over the nodes after the import is that of the
\* exported graph, also when several nodes carry the same label.
C17_RoundTripNodes ==
    [][save_then_load => SameNodeBag(G, heap, G', heap')]_vars

\* The (source label, target label, type) triples of the edges.
EdgeTriples(g) ==
    {<<g.nodes[e[1]].label, g.nodes[e[2]].label, g.edges[e]>> : e \in EdgeIds(g)}

\* C18: Export followed by Import preserves the edges: the set of (source
\* label, target label, type) triples after the import is that of the exported
\* graph, and the number of edges is unchanged.
C18_RoundTripEdges ==
    [][save_then_load =>
          /\ EdgeTriples(G') = EdgeTriples(G)
          /\ Cardinality(EdgeIds(G')) = Cardinality(EdgeIds(G))]_vars

\* C19: an import that reports a failure (a file that does not parse or has no
\* GraphData, or a malformed entry met while the nodes or edges are decoded)
\* leaves the graph, the agent registry and the undo and redo stacks exactly
\* as they were before the import.
C19_ImportAllOrNothing ==
    [][last' \in {"load_failed", "load_raised"}
          => /\ G' = G
             /\ heap' = heap
             /\ agents' = agents
             /\ undo_stack' = undo_stack
             /\ redo_stack' = redo_stack]_vars

\* The keys of Nodes, and the Edges entries whose two labels are keys.
NodeKeys(doc) == {doc.Nodes[i].key : i \in 1..Len(doc.Nodes)}
Resolved(doc) ==
    {i \in 1..Len(doc.Edges) :
        doc.Edges[i].Source \in NodeKeys(doc) /\ doc.Edges[i].Target \in NodeKeys(doc)}
KeyId(doc, lbl) == (CHOOSE i \in 1..Len(doc.Nodes) : doc.Nodes[i].key = lbl) - 1

C21_LayerValid ==
    \A n \in NodeIds(G) : G.nodes[n].layer \in {LAYER_ORDER[i] : i \in 1..Len(LAYER_ORDER)}

\* A node imported with a Type that names no layer was dragged in the layered
\* view and snapped to the second layer.
C21_Witness ==
    /\ last = "finalize_drag"
    /\ view_mode = VIEW_MODE_JSAT
    /\ \E n \in NodeIds(G) :
          /\ G.nodes[n].label = "K1"
          /\ G.nodes[n].layer = "Coordination Grounding"
          /\ Last(undo_stack).nodes[n].layer = "Base Environment"

\* The edges of the complete directed graph without self-loops on the nodes
\* of g.
CompleteEdges(g) == {e \in NodeIds(g) \X NodeIds(g) : e[1] # e[2]}

\* C22: Density lies in [0, 1] for every reachable graph, imports included:
\* with n >= 2 nodes there are at most n(n-1) edges; and Density is 1 for a
\* complete directed graph on n >= 2 nodes without self-loops.
C22_DensityRange ==
    LET n == Cardinality(NodeIds(G))
    IN  /\ Density(G) <= 1000
        /\ n >= 2 => Cardinality(EdgeIds(G)) <= n * (n - 1)
        /\ (n >= 2 /\ EdgeIds(G) = CompleteEdges(G)) => Density(G) = 1000

\* C23 as stated: Total Cycles is the exact number of simple cycles when there
\* are fewer than 100, and is "100+" whenever the enumeration reaches 100
\* cycles, no more than 100 cycles being drawn.
C23_CapReached ==
    LET c == Cardinality(simple_cycles(G))
        r == TotalCycles(G)
    IN  /\ c < CYCLE_CAP => ~r.plus /\ r.shown = c
        /\ c >= CYCLE_CAP => r.plus /\ r.drawn <= CYCLE_CAP

\* C23, amended: Total Cycles is the exact number of simple cycles when there
\* are at most 100, and is "100+" when there are more than 100, the
\* enumeration stopping at the 101st cycle.
C23_TotalCycles ==
    LET c == Cardinality(simple_cycles(G))
        r == TotalCycles(G)
    IN  /\ c <= CYCLE_CAP => ~r.plus /\ r.shown = c /\ r.drawn = c
        /\ c > CYCLE_CAP => r.plus /\ r.drawn = CYCLE_CAP + 1

C23_Witness ==
    /\ last = "load"
    /\ Cardinality(simple_cycles(G)) = CYCLE_CAP
    /\ TotalCycles(G) = [plus |-> FALSE, shown |-> CYCLE_CAP, drawn |-> CYCLE_CAP]

\* C24: the all-cycles highlight has one group per enumerated cycle and never
\* more groups than the cap of 100, in agreement with Total Cycles: as many
\* groups as the number it shows, and 100 groups when it shows "100+".
C24_HighlightCapped ==
    LET hl == get_cycle_highlights(G)
        r == TotalCycles(G)
    IN  /\ Len(hl) <= CYCLE_CAP
        /\ Len(hl) = r.shown
        /\ \A i \in 1..Len(hl) : hl[i].nodes = cycles(G)[i]

\* C25: for every valid cycle index i the single-cycle highlight for i has the
\* nodes, the closed edge list and the color of group i of the all-cycles
\* highlight.
C25_SingleMatchesAll ==
    LET all == get_cycle_highlights(G)
    IN  \A i \in 0..(Len(all) - 1) :
           LET one == get_single_cycle_highlight(G, i)
           IN  /\ Len(one) = 1
               /\ one[1].nodes = all[i + 1].nodes
               /\ one[1].edges = all[i + 1].edges
               /\ one[1].color = all[i + 1].color

\* The edges whose two ends have disjoint agent sets.
DisjointEdges(g, h) ==
    {e \in EdgeIds(g) : AgentSet(g, h, e[1]) \cap AgentSet(g, h, e[2]) = {}}

\* C26: an edge counts as cross-boundary exactly when the agent sets of its
\* ends are disjoint, whatever the order of the agents on a node and whether
\* a single agent is a bare value or a one-element list; Interdependence is
\* that count over the number of edges, and the interdependence highlight
\* holds exactly those edges and their ends.
C26_Interdependence ==
    LET D == DisjointEdges(G, heap)
        m == Cardinality(EdgeIds(G))
        hl == get_interdependence_highlights(G, heap)
    IN  /\ cross_edges(G, heap) = D
        /\ m > 0 => Interdependence(G, heap) = (2000 * Cardinality(D) + m) \div (2 * m)
        /\ D = {} => hl = <<>>
        /\ D # {} => /\ Len(hl) = 1
                     /\ SeqToSet(hl[1].edges) = D
                     /\ SeqToSet(hl[1].nodes) = {e[1] : e \in D} \cup {e[2] : e \in D}

\* The lists of groups a mode can show for the graph.
ModeGroups(g, h, m) ==
    IF m = <<"cycles">> THEN {get_cycle_highlights(g)}
    ELSE IF m = <<"interdependence">> THEN {get_interdependence_highlights(g, h)}
    ELSE IF m = <<"modularity">> THEN {get_modularity_highlights(g, P) : P \in Communities(g)}
    ELSE IF m[1] = "cycle_" THEN {get_single_cycle_highlight(g, m[2])}
    ELSE {get_single_modularity_highlight(g, P, m[2]) : P \in Communities(g)}

\* Selecting mode m toggles: off when m is the active mode, else m becomes
\* the active mode with its groups.
Toggled(m) ==
    IF active_vis_mode = m
    THEN active_vis_mode' = NoMode /\ current_highlights' = <<>>
    ELSE active_vis_mode' = m /\ current_highlights' \in ModeGroups(G, heap, m)

\* C27: selecting an analysis mode (all-cycles, single-cycle(i),
\* interdependence, all-communities, single-community(i)) turns highlighting
\* off when that mode is the active one, and otherwise makes it the active
\* mode and replaces the highlights with its groups.
C27_HighlightToggle ==
    [][/\ \A vis \in VisModes : \A P \in Communities(G) :
            trigger_visual_analytics(vis, P) => Toggled(vis)
       /\ \A i \in 0..MaxVisIndex :
            trigger_single_cycle_vis(i) => Toggled(cycle_mode(i))
       /\ \A i \in 0..MaxVisIndex : \A P \in Communities(G) :
            trigger_single_modularity_vis(i, P) => Toggled(mod_group_mode(i))]_vars

C29_NoDanglingNodes ==
    /\ selected_node # NoNode => selected_node \in NodeIds(G)
    /\ HighlightNodes(current_highlights) \subseteq NodeIds(G)

\* C30: in every reachable state every agent name in a node's agent set is a
\* key of the agent registry.
C30_AgentsRegistered ==
    \A n \in NodeIds(G) : AgentSet(G, heap, n) \subseteq SeqToSet(agents)

====
